---- MODULE Spec2Model ----
(***************************************************************************)
(* Option pricing: the binomial tree of "Binomial Tree/AmericanOption.py"  *)
(* and the closed forms of "Black-Scholes/Black-Scholes.py".               *)
(*                                                                         *)
(* Numbers.  A Python float is modelled by a fixed-point integer with ONE  *)
(* units per 1.0; a product or quotient of two such numbers is rounded     *)
(* down to the grid (Mul, Div), as a float operation is rounded to the     *)
(* nearest float.  Spot, strike, barrier and payout are whole numbers of   *)
(* money units.  A Black-Scholes price is kept exact: it is an integer     *)
(* count of units of ONE^-3, so that sums and differences of the terms of  *)
(* the formulas are the sums and differences of real arithmetic.           *)
(***************************************************************************)
EXTENDS Integers, Sequences, FiniteSets, TLC

\* ------------------------------------------------------------------------
\* Bounds of the model
\* ------------------------------------------------------------------------
HALF == 50             \* fixed-point units per 0.5
MaxN == 2              \* largest number of tree steps N
MaxCalls == 3          \* pricing operations called on the object

\* fixed-point units per 1.0
ONE == 2 * HALF

\* ------------------------------------------------------------------------
\* Arithmetic of the Python runtime, numpy, math and scipy
\* ------------------------------------------------------------------------
Max(x, y) == IF x >= y THEN x ELSE y

\* x * y of two fixed-point numbers
Mul(x, y) == (x * y) \div ONE

\* x / y of two fixed-point numbers, y # 0
Div(x, y) == IF y > 0 THEN (x * ONE) \div y ELSE ((-x) * ONE) \div (-y)

\* the fixed-point number of a whole number
Fx(n) == n * ONE

RECURSIVE ISqrt(_, _, _)
\* the largest s in lo .. hi with s * s <= n
ISqrt(n, lo, hi) ==
    IF lo >= hi THEN lo
    ELSE LET mid == (lo + hi + 1) \div 2
         IN  IF mid * mid <= n THEN ISqrt(n, mid, hi) ELSE ISqrt(n, lo, mid - 1)

\* math.sqrt / np.sqrt, x >= 0
Sqrt(x) == ISqrt(x * ONE, 0, x + ONE)

RECURSIVE IPow(_, _)
\* x ** n for a whole number n >= 0
IPow(x, n) == IF n = 0 THEN ONE ELSE Mul(IPow(x, n - 1), x)

LN2 == (6931 * ONE) \div 10000

RECURSIVE Pow2(_, _)
\* x * 2^k
Pow2(x, k) == IF k = 0 THEN x
              ELSE IF k > 0 THEN Pow2(2 * x, k - 1)
              ELSE Pow2(x \div 2, k + 1)

\* e^x for 0 <= x < ln 2: four terms of the series
ExpSeries(x) ==
    LET x2 == Mul(x, x)
        x3 == Mul(x2, x)
        x4 == Mul(x3, x)
    IN  ONE + x + x2 \div 2 + x3 \div 6 + x4 \div 24

\* math.exp / np.exp: e^x = 2^k * e^(x - k ln 2)
Exp(x) == LET k == x \div LN2 IN Pow2(ExpSeries(x - k * LN2), k)

\* ln x for 1 <= x < 2: 2 atanh((x-1)/(x+1))
LnSeries(x) ==
    LET t  == Div(x - ONE, x + ONE)
        t2 == Mul(t, t)
        t3 == Mul(t2, t)
        t5 == Mul(t3, t2)
    IN  2 * (t + t3 \div 3 + t5 \div 5)

RECURSIVE Ln(_)
\* np.log, x > 0
Ln(x) == IF x >= 2 * ONE THEN LN2 + Ln(x \div 2)
         ELSE IF x < ONE THEN Ln(2 * x) - LN2
         ELSE LnSeries(x)

\* b ** e for a fixed-point exponent, b > 0
Pow(b, e) == Exp(Mul(e, Ln(b)))

\* Standard normal distribution function at 0, 0.5, ..., 4, in thousandths
PhiTab == << 500, 691, 841, 933, 977, 994, 999, 1000, 1000 >>

\* the distribution function for z >= 0, interpolated between the table points
PhiPos(z) ==
    IF z >= 4 * ONE THEN ONE
    ELSE LET k  == (2 * z) \div ONE
             lo == PhiTab[k + 1]
             hi == PhiTab[k + 2]
             m  == lo + ((hi - lo) * (2 * z - k * ONE)) \div ONE
         IN  (m * ONE) \div 1000

\* ss.norm.cdf(x, 0, 1): the lower tail is the reflection of the upper tail
Phi(x) == IF x >= 0 THEN PhiPos(x) ELSE ONE - PhiPos(-x)


\* ------------------------------------------------------------------------
\* State
\* ------------------------------------------------------------------------
VARIABLES
    \* AmericanOption(S0, K, T, v, r, q, N, CallorPut): one call
    pc,            \* position in the function body
    arg,           \* the arguments of the call
    dt, u, d, a, p,            \* the step parameters
    stock_tree, option_tree,   \* the two (N+1) x (N+1) matrices
    i, j,          \* the loop variables
    result,        \* how the call ended
    written,       \* the cells assigned so far, as <<tree, i, j>>
    offtri,        \* the accesses made to cells with i > j
    early,         \* the cells with i <= j read before they were assigned
    \* one object of Black-Scholes.py
    self,          \* its fields
    first,         \* the first pricing operation called on it
    last,          \* the latest pricing operation called on it
    ncalls         \* the number of pricing operations called on it

treeVars == << pc, arg, dt, u, d, a, p, stock_tree, option_tree, i, j,
               result, written, offtri, early >>

bsVars == << self, first, last, ncalls >>

vars == << pc, arg, dt, u, d, a, p, stock_tree, option_tree, i, j,
           result, written, offtri, early, self, first, last, ncalls >>

\* ------------------------------------------------------------------------
\* AmericanOption.py
\* ------------------------------------------------------------------------
TreeS0 == {0, 3, 5}
TreeK == {-1, 0, 4}
TreeT == {-ONE, 0, ONE}
TreeV == {-30, 0, 30}
TreeR == {0, 5}
TreeQ == {0, 3}
TreeN == (-2) .. MaxN
TreeKind == {"call", "put", "straddle"}

NoArg == [S0 |-> 0, K |-> 0, T |-> 0, v |-> 0, r |-> 0, q |-> 0, N |-> 0,
          CallorPut |-> "none"]

NoResult == [kind |-> "none", exc |-> "none", val |-> 0]

Returns(x) == [kind |-> "return", exc |-> "none", val |-> x]

Raises(e) == [kind |-> "raise", exc |-> e, val |-> 0]

\* np.zeros([N + 1, N + 1])
zeros(N) == [c \in (0 .. N) \X (0 .. N) |-> 0]

TreeIdle ==
    /\ pc = "idle"
    /\ arg = NoArg
    /\ dt = 0 /\ u = 0 /\ d = 0 /\ a = 0 /\ p = 0
    /\ stock_tree = << >>
    /\ option_tree = << >>
    /\ i = 0 /\ j = 0
    /\ result = NoResult
    /\ written = {}
    /\ offtri = {}
    /\ early = {}

\* the caller enters the function
Call(S0, K, T, v, r, q, N, CallorPut) ==
    /\ pc = "idle"
    /\ pc' = "params"
    /\ arg' = [S0 |-> S0, K |-> K, T |-> T, v |-> v, r |-> r, q |-> q,
               N |-> N, CallorPut |-> CallorPut]
    /\ UNCHANGED << dt, u, d, a, p, stock_tree, option_tree, i, j, result,
                    written, offtri, early >>
    /\ UNCHANGED bsVars

\* the statement that ends the call with an exception
Fail(e) ==
    /\ pc' = "done"
    /\ result' = Raises(e)

\* lines 31-35: dt, u, d, a, p
Params ==
    /\ pc = "params"
    /\ IF arg.N = 0
       THEN /\ Fail("ZeroDivisionError")
            /\ UNCHANGED << dt, u, d, a, p >>
       ELSE LET dt1 == Div(arg.T, Fx(arg.N)) IN
            IF dt1 < 0
            THEN /\ Fail("ValueError")
                 /\ dt' = dt1
                 /\ UNCHANGED << u, d, a, p >>
            ELSE LET u1 == Exp(Mul(arg.v, Sqrt(dt1))) IN
                 IF u1 = 0
                 THEN /\ Fail("ZeroDivisionError")
                      /\ dt' = dt1 /\ u' = u1
                      /\ UNCHANGED << d, a, p >>
                 ELSE LET d1 == Div(ONE, u1)
                          a1 == Exp(Mul(arg.r - arg.q, dt1))
                      IN  IF u1 = d1
                          THEN /\ Fail("ZeroDivisionError")
                               /\ dt' = dt1 /\ u' = u1 /\ d' = d1 /\ a' = a1
                               /\ UNCHANGED p
                          ELSE /\ pc' = "alloc"
                               /\ dt' = dt1 /\ u' = u1 /\ d' = d1 /\ a' = a1
                               /\ p' = Div(a1 - d1, u1 - d1)
                               /\ UNCHANGED result
    /\ UNCHANGED << arg, stock_tree, option_tree, i, j, written, offtri, early >>
    /\ UNCHANGED bsVars

\* line 39: stock_tree = np.zeros([N + 1, N + 1])
AllocStock ==
    /\ pc = "alloc"
    /\ IF arg.N + 1 < 0
       THEN /\ Fail("ValueError")
            /\ UNCHANGED << stock_tree, i, j >>
       ELSE /\ pc' = "stock"
            /\ stock_tree' = zeros(arg.N)
            /\ j' = 0
            /\ i' = 0
            /\ UNCHANGED result
    /\ UNCHANGED << arg, dt, u, d, a, p, option_tree, written, offtri, early >>
    /\ UNCHANGED bsVars

\* the accesses among acc, a set of <<step, tree, i, j, mode>>, to cells with i > j
OffTriangle(acc) == {x \in acc : x[3] > x[4]}

\* the cell that line 42 assigns in iteration (i, j)
StockIndexTransposed(ii, jj) == << jj, ii >>

StockIndex(ii, jj) == << ii, jj >>

\* lines 40-42: one iteration of the inner loop
StockCell ==
    /\ pc = "stock"
    /\ j <= arg.N
    /\ LET c == StockIndex(i, j) IN
       /\ stock_tree' = [stock_tree EXCEPT
             ![c] = Mul(Mul(Fx(arg.S0), IPow(u, j - i)), IPow(d, i))]
       /\ written' = written \cup {<< "stock", c[1], c[2] >>}
       /\ offtri' = offtri \cup OffTriangle({<< "stock", "stock", c[1], c[2], "write" >>})
    /\ IF i < j
       THEN i' = i + 1 /\ j' = j
       ELSE i' = 0 /\ j' = j + 1
    /\ UNCHANGED << pc, arg, dt, u, d, a, p, option_tree, result, early >>
    /\ UNCHANGED bsVars

\* lines 44, 45, 53, 60-62: option_tree = np.zeros(...) and the choice of branch
Select ==
    /\ pc = "stock"
    /\ j > arg.N
    /\ option_tree' = zeros(arg.N)
    /\ IF arg.CallorPut \in {"call", "put"}
       THEN /\ pc' = "terminal"
            /\ UNCHANGED result
       ELSE /\ pc' = "done"
            /\ result' = Returns(Fx(-1))
    /\ UNCHANGED << arg, dt, u, d, a, p, stock_tree, i, j, written, offtri, early >>
    /\ UNCHANGED bsVars

\* stock_tree[i, j] - K for 'call', K - stock_tree[i, j] for 'put'
Intrinsic(CallorPut, s, K) ==
    IF CallorPut = "call" THEN s - Fx(K) ELSE Fx(K) - s

\* the cells of tree read among cells, a set of <<i, j>>, before being assigned
ReadEarly(tree, cells) ==
    {<< tree, c[1], c[2] >> : c \in {x \in cells : x[1] <= x[2]}} \ written

\* lines 47, 54: option_tree[:, N] = np.maximum(0, ...)
Terminal ==
    /\ pc = "terminal"
    /\ IF arg.N < 0
       THEN /\ Fail("IndexError")
            /\ UNCHANGED << option_tree, i, j, written, offtri, early >>
       ELSE LET N == arg.N
                rows == 0 .. N
            IN  /\ option_tree' = [c \in DOMAIN option_tree |->
                      IF c[2] = N
                      THEN Max(0, Intrinsic(arg.CallorPut, stock_tree[c], arg.K))
                      ELSE option_tree[c]]
                /\ written' = written \cup {<< "option", ii, N >> : ii \in rows}
                /\ offtri' = offtri \cup OffTriangle(
                      {<< "terminal", "stock", ii, N, "read" >> : ii \in rows}
                      \cup {<< "terminal", "option", ii, N, "write" >> : ii \in rows})
                /\ early' = early \cup ReadEarly("stock", {<< ii, N >> : ii \in rows})
                /\ j' = N - 1
                /\ i' = 0
                /\ pc' = "induct"
                /\ UNCHANGED result
    /\ UNCHANGED << arg, dt, u, d, a, p, stock_tree >>
    /\ UNCHANGED bsVars

\* (1 / a) * (p * up + (1 - p) * down)
Continuation(up, down) == Mul(Div(ONE, a), Mul(p, up) + Mul(ONE - p, down))

\* lines 48-50, 55-57: one iteration of the inner loop of the induction
InductCell ==
    /\ pc = "induct"
    /\ j >= 0
    /\ i <= j
    /\ option_tree' = [option_tree EXCEPT
          ![<< i, j >>] = Continuation(option_tree[<< i, j + 1 >>],
                                       option_tree[<< i + 1, j + 1 >>])]
    /\ written' = written \cup {<< "option", i, j >>}
    /\ offtri' = offtri \cup OffTriangle(
          {<< "induct", "option", i, j + 1, "read" >>,
            << "induct", "option", i + 1, j + 1, "read" >>,
            << "induct", "option", i, j, "write" >>})
    /\ early' = early \cup ReadEarly("option", {<< i, j + 1 >>, << i + 1, j + 1 >>})
    /\ i' = i + 1
    /\ UNCHANGED << pc, arg, dt, u, d, a, p, stock_tree, j, result >>
    /\ UNCHANGED bsVars

\* np.maximum(option_tree[i, j], intrinsic) with the maximum left out
FlooredNever(CallorPut, cur, s, K) == cur

\* np.maximum(option_tree[i, j], intrinsic)
Floored(CallorPut, cur, s, K) == Max(cur, Intrinsic(CallorPut, s, K))

\* lines 51, 58: option_tree[:, j] = np.maximum(option_tree[:, j], ...)
FloorColumn ==
    /\ pc = "induct"
    /\ j >= 0
    /\ i > j
    /\ LET rows == 0 .. arg.N IN
       /\ option_tree' = [c \in DOMAIN option_tree |->
             IF c[2] = j
             THEN Floored(arg.CallorPut, option_tree[c], stock_tree[c], arg.K)
             ELSE option_tree[c]]
       /\ written' = written \cup {<< "option", ii, j >> : ii \in rows}
       /\ offtri' = offtri \cup OffTriangle(
             {<< "floor", "option", ii, j, "read" >> : ii \in rows}
             \cup {<< "floor", "stock", ii, j, "read" >> : ii \in rows}
             \cup {<< "floor", "option", ii, j, "write" >> : ii \in rows})
       /\ early' = early \cup ReadEarly("option", {<< ii, j >> : ii \in rows})
                         \cup ReadEarly("stock", {<< ii, j >> : ii \in rows})
    /\ j' = j - 1
    /\ i' = 0
    /\ UNCHANGED << pc, arg, dt, u, d, a, p, stock_tree, result >>
    /\ UNCHANGED bsVars

\* line 64: return option_tree[0, 0]
Return ==
    /\ pc = "induct"
    /\ j < 0
    /\ pc' = "done"
    /\ result' = Returns(option_tree[<< 0, 0 >>])
    /\ early' = early \cup ReadEarly("option", {<< 0, 0 >>})
    /\ UNCHANGED << arg, dt, u, d, a, p, stock_tree, option_tree, i, j,
                    written, offtri >>
    /\ UNCHANGED bsVars

NoObject == [cls |-> "none"]

NoCall == [op |-> "none"]

TreeInit ==
    /\ TreeIdle
    /\ self = NoObject
    /\ first = NoCall
    /\ last = NoCall
    /\ ncalls = 0

TreeNext ==
    \/ \E S0 \in TreeS0, K \in TreeK, T \in TreeT, v \in TreeV, r \in TreeR,
          q \in TreeQ, N \in TreeN, CallorPut \in TreeKind :
             Call(S0, K, T, v, r, q, N, CallorPut)
    \/ Params
    \/ AllocStock
    \/ StockCell
    \/ Select
    \/ Terminal
    \/ InductCell
    \/ FloorColumn
    \/ Return

TreeSpec == TreeInit /\ [][TreeNext]_vars


\* ------------------------------------------------------------------------
\* Black-Scholes.py
\* ------------------------------------------------------------------------
BsS0 == {3, 4}
BsK == {3, 4}
BsH == {3, 4, 5}
BsT == {ONE, 2 * ONE}
BsV == {20, 40}
BsR == {0, 5}
BsQ == {0, 3}
BsK2 == {4, 5}
BsPayout == {1, 10}
BsKnock == {"in", "out", "sideways"}

\* a price is a whole number of units of ONE^-3
Whole(n) == n * ONE * ONE * ONE

\* the price that is a product of a whole number and two fixed-point numbers
Exact(x) == x * ONE

\* BSmodel._d1
_d1(o) ==
    Div(Ln(Div(Fx(o.S0), Fx(o.K)))
          + Mul(o.r - o.q + Mul(HALF, Mul(o.v, o.v)), o.T),
        Mul(o.v, Sqrt(o.T)))

\* BSmodel._d2
_d2(o) ==
    Div(Ln(Div(Fx(o.S0), Fx(o.K)))
          + Mul(o.r - o.q - Mul(HALF, Mul(o.v, o.v)), o.T),
        Mul(o.v, Sqrt(o.T)))

\* BSmodel.__init__, for an object of class cls
BSmodel(cls, S0, K, T, v, r, q) ==
    LET o == [cls |-> cls, S0 |-> S0, K |-> K, T |-> T, v |-> v, r |-> r, q |-> q]
    IN  o @@ [d1 |-> _d1(o), d2 |-> _d2(o)]

\* VanillaEuro.vanilla_european_call
vanilla_european_call(o) ==
    Exact(o.S0 * Exp(Mul(-o.q, o.T)) * Phi(o.d1)
          - o.K * Exp(Mul(-o.r, o.T)) * Phi(o.d2))

\* vanilla_european_put with d1 where d2 belongs
vanilla_european_put_d1(o) ==
    Exact(o.K * Exp(Mul(-o.r, o.T)) * Phi(-o.d1)
          - o.S0 * Exp(Mul(-o.q, o.T)) * Phi(-o.d1))

\* VanillaEuro.vanilla_european_put
vanilla_european_put(o) ==
    Exact(o.K * Exp(Mul(-o.r, o.T)) * Phi(-o.d2)
          - o.S0 * Exp(Mul(-o.q, o.T)) * Phi(-o.d1))

\* VanillaEuro(S0, K, T, v, r, q), the object the other classes price with
VanillaEuro(S0, K, T, v, r, q) == BSmodel("VanillaEuro", S0, K, T, v, r, q)

\* SpreadOption.bull_call
bull_call(o, K2) ==
    LET c1 == vanilla_european_call(VanillaEuro(o.S0, o.K, o.T, o.v, o.r, o.q))
        c2 == vanilla_european_call(VanillaEuro(o.S0, K2, o.T, o.v, o.r, o.q))
    IN  c2 - c1

\* SpreadOption.bull_put
bull_put(o, K2) ==
    LET p1 == vanilla_european_put(VanillaEuro(o.S0, o.K, o.T, o.v, o.r, o.q))
        p2 == vanilla_european_put(VanillaEuro(o.S0, K2, o.T, o.v, o.r, o.q))
    IN  p2 - p1

\* SpreadOption.bear_call
bear_call(o, K2) ==
    LET c1 == vanilla_european_call(VanillaEuro(o.S0, o.K, o.T, o.v, o.r, o.q))
        c2 == vanilla_european_call(VanillaEuro(o.S0, K2, o.T, o.v, o.r, o.q))
    IN  c1 - c2

\* SpreadOption.bear_put
bear_put(o, K2) ==
    LET p1 == vanilla_european_put(VanillaEuro(o.S0, o.K, o.T, o.v, o.r, o.q))
        p2 == vanilla_european_put(VanillaEuro(o.S0, K2, o.T, o.v, o.r, o.q))
    IN  p1 - p2

\* BinaryOption.bi_cashcall
bi_cashcall(o, Q) == Exact(Q * Exp(Mul(-o.r, o.T)) * Phi(o.d2))

\* BinaryOption.bi_cashput
bi_cashput(o, Q) ==
    Q * Exp(Mul(-o.r, o.T)) * Phi(-o.d2) * Exp(Mul(-o.q, o.T))

\* BinaryOption.bi_assetcall
bi_assetcall(o) == Exact(o.S0 * Exp(Mul(-o.r, o.T)) * Phi(o.d1))

\* BinaryOption.bi_assetput
bi_assetput(o) ==
    o.S0 * Exp(Mul(-o.r, o.T)) * Phi(-o.d1) * Exp(Mul(-o.q, o.T))

\* BarrierOption._lambda
_lambda(o) == Div(o.r - o.q + Div(Mul(o.v, o.v), Fx(2)), Mul(o.v, o.v))

\* BarrierOption._y
_y(o) ==
    Div(Ln(Div(Fx(o.H * o.H), Fx(o.S0 * o.K))), Mul(o.v, Sqrt(o.T)))
      + Mul(Mul(o.lamb, o.v), Sqrt(o.T))

\* BarrierOption._x1
_x1(o) ==
    Div(Ln(Div(Fx(o.S0), Fx(o.H))), Mul(o.v, Sqrt(o.T)))
      + Mul(Mul(o.lamb, o.v), Sqrt(o.T))

\* BarrierOption._y1
_y1(o) ==
    Div(Ln(Div(Fx(o.H), Fx(o.S0))), Mul(o.v, Sqrt(o.T)))
      + Mul(Mul(o.lamb, o.v), Sqrt(o.T))

\* BarrierOption.__init__
BarrierOption(S0, K, T, v, r, q, barrier) ==
    LET o0 == BSmodel("BarrierOption", S0, K, T, v, r, q) @@ [H |-> barrier]
        o1 == o0 @@ [lamb |-> _lambda(o0)]
        o2 == o1 @@ [y |-> _y(o1)]
        o3 == o2 @@ [x1 |-> _x1(o2)]
    IN  o3 @@ [y1 |-> _y1(o3)]

\* S0 * np.exp(-q * T) * (H / S0)**(2 * lamb)
SpotLeg(o) ==
    o.S0 * Exp(Mul(-o.q, o.T)) * Pow(Div(Fx(o.H), Fx(o.S0)), 2 * o.lamb)

\* K * np.exp(-r * T) * (H / S0)**(2 * lamb - 2)
StrikeLeg(o) ==
    o.K * Exp(Mul(-o.r, o.T)) * Pow(Div(Fx(o.H), Fx(o.S0)), 2 * o.lamb - Fx(2))

\* v * np.sqrt(T)
VolT(o) == Mul(o.v, Sqrt(o.T))

\* the two legs of a barrier operation, the vanilla value, the leg computed
\* by its closed form ("none" when neither is)
Legs(ki, ko, plain, direct) ==
    [ki |-> ki, ko |-> ko, plain |-> plain, direct |-> direct]

\* the vanilla call of the same parameters, lines 191 and 217
PlainCall(o) == vanilla_european_call(VanillaEuro(o.S0, o.K, o.T, o.v, o.r, o.q))

\* the vanilla put of the same parameters, lines 242 and 268
PlainPut(o) == vanilla_european_put(VanillaEuro(o.S0, o.K, o.T, o.v, o.r, o.q))

\* lines 193-194: cdi
DownAndInCall(o) == SpotLeg(o) * Phi(o.y) - StrikeLeg(o) * Phi(o.y - VolT(o))

\* lines 198-200: cdo
DownAndOutCall(o) ==
    Exact(o.S0 * Phi(o.x1) * Exp(Mul(-o.q, o.T)))
    - Exact(o.K * Exp(Mul(-o.r, o.T)) * Phi(o.x1 - VolT(o)))
    - SpotLeg(o) * Phi(o.y1)
    + StrikeLeg(o) * Phi(o.y1 - VolT(o))

\* lines 223-225: cui
UpAndInCall(o) ==
    Exact(o.S0 * Phi(o.x1) * Exp(Mul(-o.q, o.T)))
    - Exact(o.K * Exp(Mul(-o.r, o.T)) * Phi(o.x1 - VolT(o)))
    - SpotLeg(o) * (Phi(-o.y) - Phi(-o.y1))
    + StrikeLeg(o) * (Phi(-o.y + VolT(o)) - Phi(-o.y1 + VolT(o)))

\* line 245: the value assigned to pui
up_put_T1(o) == -SpotLeg(o) * Phi(-o.y)

\* line 246: an expression statement of its own, its value is dropped
up_put_T2(o) == StrikeLeg(o) * Phi(-o.y + VolT(o))

\* lines 249-251: puo
UpAndOutPut(o) ==
    - Exact(o.S0 * Phi(-o.x1) * Exp(Mul(-o.q, o.T)))
    + Exact(o.K * Exp(Mul(-o.r, o.T)) * Phi(-o.x1 + VolT(o)))
    + SpotLeg(o) * Phi(-o.y1)
    - StrikeLeg(o) * Phi(-o.y1 + VolT(o))

\* lines 274-276: pdi
DownAndInPut(o) ==
    - Exact(o.S0 * Phi(-o.x1) * Exp(Mul(-o.q, o.T)))
    + Exact(o.K * Exp(Mul(-o.r, o.T)) * Phi(-o.x1 + VolT(o)))
    + SpotLeg(o) * (Phi(o.y) - Phi(-o.y1))
    - StrikeLeg(o) * (Phi(o.y - VolT(o)) - Phi(o.y1 - VolT(o)))

\* down_call with K < H for K <= H
down_call_strict(o) ==
    LET c == PlainCall(o) IN
    IF o.K < o.H
    THEN LET cdi == DownAndInCall(o) IN Legs(cdi, c - cdi, c, "in")
    ELSE LET cdo == DownAndOutCall(o) IN Legs(c - cdo, cdo, c, "out")

\* BarrierOption.down_call, lines 191-201
down_call(o) ==
    LET c == PlainCall(o) IN
    IF o.K <= o.H
    THEN LET cdi == DownAndInCall(o) IN Legs(cdi, c - cdi, c, "in")
    ELSE LET cdo == DownAndOutCall(o) IN Legs(c - cdo, cdo, c, "out")

\* BarrierOption.up_call, lines 217-226
up_call(o) ==
    LET c == PlainCall(o) IN
    IF o.H <= o.K
    THEN Legs(c, 0, c, "none")
    ELSE LET cui == UpAndInCall(o) IN Legs(cui, c - cui, c, "in")

\* BarrierOption.up_put, lines 242-252
up_put(o) ==
    LET pp == PlainPut(o) IN
    IF o.H >= o.K
    THEN LET pui == up_put_T1(o) IN Legs(pui, pp - pui, pp, "in")
    ELSE LET puo == UpAndOutPut(o) IN Legs(pp - puo, puo, pp, "out")

\* down_put with pdo = p for pdo = 0
down_put_both(o) ==
    LET pp == PlainPut(o) IN
    IF o.H >= o.K
    THEN Legs(pp, pp, pp, "none")
    ELSE LET pdi == DownAndInPut(o) IN Legs(pdi, pp - pdi, pp, "in")

\* BarrierOption.down_put, lines 268-277
down_put(o) ==
    LET pp == PlainPut(o) IN
    IF o.H >= o.K
    THEN Legs(pp, 0, pp, "none")
    ELSE LET pdi == DownAndInPut(o) IN Legs(pdi, pp - pdi, pp, "in")

\* lines 203-211 (228-236, 254-262, 279-287): the price chosen by knock
Knocked(legs, knock) ==
    IF knock = "out" THEN legs.ko
    ELSE IF knock = "in" THEN legs.ki
    ELSE Whole(-1)

NoLegs == Legs(0, 0, 0, "na")

\* what a finished operation leaves for the caller: the operation, its
\* argument, the returned price; for a barrier operation also the legs it
\* computed before it looked at knock
Finished(op, argv, price, legs) ==
    [op |-> op, arg |-> argv, kind |-> "return", exc |-> "none", val |-> price,
     legs |-> legs]

\* the caller calls an operation and keeps what it returned
Record(c) ==
    /\ ncalls < MaxCalls
    /\ ncalls' = ncalls + 1
    /\ last' = c
    /\ first' = IF first.op = "none" THEN c ELSE first

VanillaEuropeanCall ==
    /\ self.cls = "VanillaEuro"
    /\ Record(Finished("vanilla_european_call", "", vanilla_european_call(self), NoLegs))
    /\ UNCHANGED self
    /\ UNCHANGED treeVars

VanillaEuropeanPut ==
    /\ self.cls = "VanillaEuro"
    /\ Record(Finished("vanilla_european_put", "", vanilla_european_put(self), NoLegs))
    /\ UNCHANGED self
    /\ UNCHANGED treeVars

\* bull_call that keeps K2 in the object
BullCallKeepsK2(K2) ==
    /\ self.cls = "SpreadOption"
    /\ Record(Finished("bull_call", K2, bull_call(self, K2), NoLegs))
    /\ self' = [self EXCEPT !.K = K2]
    /\ UNCHANGED treeVars

BullCall(K2) ==
    /\ self.cls = "SpreadOption"
    /\ Record(Finished("bull_call", K2, bull_call(self, K2), NoLegs))
    /\ UNCHANGED self
    /\ UNCHANGED treeVars

BullPut(K2) ==
    /\ self.cls = "SpreadOption"
    /\ Record(Finished("bull_put", K2, bull_put(self, K2), NoLegs))
    /\ UNCHANGED self
    /\ UNCHANGED treeVars

BearCall(K2) ==
    /\ self.cls = "SpreadOption"
    /\ Record(Finished("bear_call", K2, bear_call(self, K2), NoLegs))
    /\ UNCHANGED self
    /\ UNCHANGED treeVars

BearPut(K2) ==
    /\ self.cls = "SpreadOption"
    /\ Record(Finished("bear_put", K2, bear_put(self, K2), NoLegs))
    /\ UNCHANGED self
    /\ UNCHANGED treeVars

BiCashcall(Q) ==
    /\ self.cls = "BinaryOption"
    /\ Record(Finished("bi_cashcall", Q, bi_cashcall(self, Q), NoLegs))
    /\ UNCHANGED self
    /\ UNCHANGED treeVars

BiCashput(Q) ==
    /\ self.cls = "BinaryOption"
    /\ Record(Finished("bi_cashput", Q, bi_cashput(self, Q), NoLegs))
    /\ UNCHANGED self
    /\ UNCHANGED treeVars

BiAssetcall ==
    /\ self.cls = "BinaryOption"
    /\ Record(Finished("bi_assetcall", "", bi_assetcall(self), NoLegs))
    /\ UNCHANGED self
    /\ UNCHANGED treeVars

BiAssetput ==
    /\ self.cls = "BinaryOption"
    /\ Record(Finished("bi_assetput", "", bi_assetput(self), NoLegs))
    /\ UNCHANGED self
    /\ UNCHANGED treeVars

DownCall(knock) ==
    /\ self.cls = "BarrierOption"
    /\ LET legs == down_call(self) IN
       Record(Finished("down_call", knock, Knocked(legs, knock), legs))
    /\ UNCHANGED self
    /\ UNCHANGED treeVars

UpCall(knock) ==
    /\ self.cls = "BarrierOption"
    /\ LET legs == up_call(self) IN
       Record(Finished("up_call", knock, Knocked(legs, knock), legs))
    /\ UNCHANGED self
    /\ UNCHANGED treeVars

UpPut(knock) ==
    /\ self.cls = "BarrierOption"
    /\ LET legs == up_put(self) IN
       Record(Finished("up_put", knock, Knocked(legs, knock), legs))
    /\ UNCHANGED self
    /\ UNCHANGED treeVars

DownPut(knock) ==
    /\ self.cls = "BarrierOption"
    /\ LET legs == down_put(self) IN
       Record(Finished("down_put", knock, Knocked(legs, knock), legs))
    /\ UNCHANGED self
    /\ UNCHANGED treeVars

\* the objects a caller can construct with S0, K, T, v, H > 0
Objects ==
    {BSmodel(cls, S0, K, T, v, r, q) :
        cls \in {"VanillaEuro", "SpreadOption", "BinaryOption"},
        S0 \in BsS0, K \in BsK, T \in BsT, v \in BsV, r \in BsR, q \in BsQ}
    \cup
    {BarrierOption(S0, K, T, v, r, q, H) :
        S0 \in BsS0, K \in BsK, T \in BsT, v \in BsV, r \in BsR, q \in BsQ,
        H \in BsH}

Init ==
    /\ self \in Objects
    /\ first = NoCall
    /\ last = NoCall
    /\ ncalls = 0
    /\ TreeIdle

Next ==
    \/ VanillaEuropeanCall
    \/ VanillaEuropeanPut
    \/ \E K2 \in BsK2 : BullCall(K2)
    \/ \E K2 \in BsK2 : BullPut(K2)
    \/ \E K2 \in BsK2 : BearCall(K2)
    \/ \E K2 \in BsK2 : BearPut(K2)
    \/ \E Q \in BsPayout : BiCashcall(Q)
    \/ \E Q \in BsPayout : BiCashput(Q)
    \/ BiAssetcall
    \/ BiAssetput
    \/ \E knock \in BsKnock : DownCall(knock)
    \/ \E knock \in BsKnock : UpCall(knock)
    \/ \E knock \in BsKnock : UpPut(knock)
    \/ \E knock \in BsKnock : DownPut(knock)

Spec == Init /\ [][Next]_vars


\* ------------------------------------------------------------------------
\* Properties
\* ------------------------------------------------------------------------
BarrierOps == {"down_call", "up_call", "up_put", "down_put"}

\* a barrier operation has returned to the caller
BarrierCalled == last.op \in BarrierOps

\* the call of AmericanOption has returned a value of the option tree
Priced ==
    /\ pc = "done"
    /\ result.kind = "return"
    /\ arg.CallorPut \in {"call", "put"}

\* C1: a selector outside the recognised set ends in an InvalidArgument
\* failure and never in a returned number: AmericanOption with CallorPut not
\* in {'call', 'put'}, a barrier operation with knock not in {'in', 'out'}.
C1_InvalidSelectorFails ==
    /\ (pc = "done" /\ arg.CallorPut \notin {"call", "put"})
          => (result.kind = "raise" /\ result.exc = "InvalidArgument")
    /\ (BarrierCalled /\ last.arg \notin {"in", "out"})
          => (last.kind = "raise" /\ last.exc = "InvalidArgument")

\* the vanilla value a barrier family is measured against
VanillaOf(op, o) ==
    IF op \in {"down_call", "up_call"} THEN PlainCall(o) ELSE PlainPut(o)

\* the same barrier operation was called with 'in' and with 'out'
InAndOutCalled ==
    /\ first.op \in BarrierOps
    /\ last.op = first.op
    /\ {first.arg, last.arg} = {"in", "out"}

\* C2: for each barrier operation and every order of K and H, the value
\* returned with knock = 'in' plus the value returned with knock = 'out' on
\* the same object is the vanilla value of the same parameters.
C2_InOutParity ==
    InAndOutCalled => first.val + last.val = VanillaOf(first.op, self)

C2_Witness ==
    /\ InAndOutCalled
    /\ first.op = "down_put"
    /\ self.H >= self.K
    /\ first.val # last.val

\* vanilla_european_call and vanilla_european_put were called on the object
CallAndPutCalled ==
    /\ first.op = "vanilla_european_call"
    /\ last.op = "vanilla_european_put"

\* C3: vanilla_european_call() - vanilla_european_put() on the same object
\* is S0 * e^(-qT) - K * e^(-rT).
C3_PutCallParity ==
    CallAndPutCalled =>
        first.val - last.val =
            Exact(Exact(self.S0 * Exp(Mul(-self.q, self.T))
                        - self.K * Exp(Mul(-self.r, self.T))))

C3_Witness ==
    /\ CallAndPutCalled
    /\ self.S0 # self.K
    /\ self.d1 # self.d2
    /\ last.val > 0
    /\ first.val > 0

\* C4: the branch each barrier operation takes follows the table, K = H
\* included: which leg is computed by its closed form, which is 0 or the
\* vanilla value, and the other leg is the vanilla value minus the computed leg.
C4_BranchSelection ==
    BarrierCalled =>
        LET l == last.legs IN
        /\ l.plain = VanillaOf(last.op, self)
        /\ last.op = "down_call" =>
              /\ (l.direct = "in") <=> (self.K <= self.H)
              /\ (l.direct = "out") <=> (self.K > self.H)
              /\ l.direct = "in" => l.ki = DownAndInCall(self)
              /\ l.direct = "out" => l.ko = DownAndOutCall(self)
        /\ last.op = "up_call" =>
              /\ (l.direct = "none" /\ l.ko = 0 /\ l.ki = l.plain) <=> (self.H <= self.K)
              /\ (l.direct = "in") <=> (self.H > self.K)
              /\ l.direct = "in" => l.ki = UpAndInCall(self)
        /\ last.op = "up_put" =>
              /\ (l.direct = "in") <=> (self.H >= self.K)
              /\ (l.direct = "out") <=> (self.H < self.K)
              /\ l.direct = "out" => l.ko = UpAndOutPut(self)
        /\ last.op = "down_put" =>
              /\ (l.direct = "none" /\ l.ko = 0 /\ l.ki = l.plain) <=> (self.H >= self.K)
              /\ (l.direct = "in") <=> (self.H < self.K)
              /\ l.direct = "in" => l.ki = DownAndInPut(self)
        /\ l.direct = "in" => l.ko = l.plain - l.ki
        /\ l.direct = "out" => l.ki = l.plain - l.ko
        /\ last.arg = "in" => last.val = l.ki
        /\ last.arg = "out" => last.val = l.ko

C4_Witness ==
    /\ last.op = "down_call"
    /\ self.K = self.H
    /\ last.arg = "out"
    /\ last.legs.direct = "in"
    /\ last.legs.ki # 0

\* C5: AmericanOption with a valid kind and N <= 0, T <= 0, v <= 0, S0 <= 0
\* or K <= 0 ends in a failure and never returns a price.
C5_InvalidNumbersFail ==
    (/\ pc = "done"
     /\ arg.CallorPut \in {"call", "put"}
     /\ \/ arg.N <= 0
        \/ arg.T <= 0
        \/ arg.v <= 0
        \/ arg.S0 <= 0
        \/ arg.K <= 0)
    => result.kind = "raise"

\* C6: the selector is checked before anything is computed: with an invalid
\* CallorPut, AmericanOption computes no step parameter and fills no cell and
\* ends in InvalidArgument whatever the numbers are; with an invalid knock a
\* barrier operation evaluates neither the vanilla value nor a leg.
C6_EagerValidation ==
    /\ (pc # "idle" /\ arg.CallorPut \notin {"call", "put"}) =>
          /\ \/ pc = "params"
             \/ pc = "done" /\ result = Raises("InvalidArgument")
          /\ << dt, u, d, a, p >> = << 0, 0, 0, 0, 0 >>
          /\ written = {}
    /\ (BarrierCalled /\ last.arg \notin {"in", "out"}) =>
          /\ last.legs = NoLegs
          /\ last.kind = "raise"
          /\ last.exc = "InvalidArgument"

\* C7: no pricing operation changes a field of the object, so an operation
\* called again with the same argument returns what it returned the first time.
C7_FieldsNeverMutated ==
    [][/\ self' = self
       /\ (first.op # "none" /\ last'.op = first.op /\ last'.arg = first.arg)
             => last'.val = first.val]_vars

C7_Witness ==
    /\ ncalls = MaxCalls
    /\ first.op = "down_call"
    /\ first.arg = "sideways"
    /\ last.op = "down_call"
    /\ last.arg = "in"
    /\ self = BarrierOption(self.S0, self.K, self.T, self.v, self.r, self.q, self.H)

\* the columns of the option tree processed so far
Processed ==
    IF pc = "induct" \/ Priced THEN (j + 1) .. arg.N ELSE {}

\* the value line 50 (57) and line 51 (58) give cell (ii, jj) from column jj + 1
FlooredValue(ii, jj) ==
    Max(Continuation(option_tree[<< ii, jj + 1 >>], option_tree[<< ii + 1, jj + 1 >>]),
        Intrinsic(arg.CallorPut, stock_tree[<< ii, jj >>], arg.K))

\* C8: once column j has been processed, every cell with i <= j holds
\* max(continuation, intrinsic) over the floored column j + 1 (column N holds
\* max(0, intrinsic)); so every such cell is at least its intrinsic value, and
\* so is the returned option_tree[0, 0].
C8_FloorEveryStep ==
    /\ \A jj \in Processed : \A ii \in 0 .. jj :
          /\ option_tree[<< ii, jj >>] =
                IF jj = arg.N
                THEN Max(0, Intrinsic(arg.CallorPut, stock_tree[<< ii, jj >>], arg.K))
                ELSE FlooredValue(ii, jj)
          /\ option_tree[<< ii, jj >>] >=
                Intrinsic(arg.CallorPut, stock_tree[<< ii, jj >>], arg.K)
    /\ Priced =>
          /\ result.val = option_tree[<< 0, 0 >>]
          /\ result.val >= Intrinsic(arg.CallorPut, stock_tree[<< 0, 0 >>], arg.K)

\* a put was priced and early exercise raised a cell before the last column
C8_Witness ==
    /\ Priced
    /\ arg.CallorPut = "put"
    /\ arg.N = MaxN
    /\ arg.S0 > 0 /\ arg.K > 0 /\ arg.v > 0 /\ arg.T > 0
    /\ \E jj \in 0 .. (arg.N - 1) : \E ii \in 0 .. jj :
          option_tree[<< ii, jj >>] >
             Continuation(option_tree[<< ii, jj + 1 >>], option_tree[<< ii + 1, jj + 1 >>])

\* C9 as stated: no step reads or assigns a cell with i > j, these cells keep 0,
\* and no cell with i <= j is read before it is written.
C9_OffTriangleUntouched ==
    /\ offtri = {}
    /\ \A c \in DOMAIN stock_tree : c[1] > c[2] => stock_tree[c] = 0
    /\ \A c \in DOMAIN option_tree : c[1] > c[2] => option_tree[c] = 0
    /\ early = {}

\* S0 * u^(j-i) * d^i
StockAt(ii, jj) == Mul(Mul(Fx(arg.S0), IPow(u, jj - ii)), IPow(d, ii))

RECURSIVE TriValue(_, _)
\* the option value of node (ii, jj), from the nodes with i <= j alone
TriValue(ii, jj) ==
    IF jj = arg.N
    THEN Max(0, Intrinsic(arg.CallorPut, StockAt(ii, jj), arg.K))
    ELSE Max(Continuation(TriValue(ii, jj + 1), TriValue(ii + 1, jj + 1)),
             Intrinsic(arg.CallorPut, StockAt(ii, jj), arg.K))

\* C9, amended: tree construction, terminal initialisation and backward
\* induction touch no cell with i > j, and the stock cells with i > j keep 0;
\* the early-exercise floor of column j does read the cells with i > j of
\* that column and assigns the option cells max(0, intrinsic of stock 0);
\* the returned value comes from the cells with i <= j alone, each written
\* before it is read.
C9_OnlyFloorOffTriangle ==
    /\ \A x \in offtri : x[1] = "floor"
    /\ \A c \in DOMAIN stock_tree : c[1] > c[2] => stock_tree[c] = 0
    /\ \A c \in DOMAIN option_tree : c[1] > c[2] =>
          option_tree[c] \in {0, Max(0, Intrinsic(arg.CallorPut, 0, arg.K))}
    /\ early = {}
    /\ Priced => result.val = TriValue(0, 0)

\* a put was priced and the floor left K in a cell with i > j
C9_Witness ==
    /\ Priced
    /\ arg.CallorPut = "put"
    /\ arg.N = MaxN
    /\ arg.K > 0
    /\ arg.S0 > 0
    /\ option_tree[<< 1, 0 >>] = Fx(arg.K)
    /\ << "floor", "option", 1, 0, "write" >> \in offtri

\* C10: up_put with H >= K returns the sum of both terms of lines 245-246 for
\* 'in' and the vanilla put minus that sum for 'out'.
C10_UpPutBothTerms ==
    (last.op = "up_put" /\ self.H >= self.K) =>
        /\ last.arg = "in" => last.val = up_put_T1(self) + up_put_T2(self)
        /\ last.arg = "out" =>
              last.val = PlainPut(self) - (up_put_T1(self) + up_put_T2(self))

====
